---- MODULE Spec2Model ----
(***************************************************************************)
(* Model of src/virtual-clock.js: the virtual clock (clockState, the       *)
(* persisted record under STORAGE_KEY, setTime / setSpeed / reset), the    *)
(* subscriber list with its synchronous, re-entrant delivery, the reads    *)
(* of the clock and of the patched Date, and the panel's Apply handler.    *)
(*                                                                         *)
(* Numbers are integers plus the value NaN (what getTime() of an invalid   *)
(* Date returns) and halves of a millisecond; arithmetic and comparison    *)
(* on NaN follow IEEE-754.  A call of the API runs at one real instant:    *)
(* the RealNow() reads inside one call return the same value.              *)
(***************************************************************************)
EXTENDS Integers, Sequences, FiniteSets, TLC

\* ---------------------------------------------------------------- bounds
MaxReal == 2
MaxRegs == 2
MaxDepth == 2

\* ---------------------------------------------------------------- numbers
NaN == -1000000

IsNaN(x) == x = NaN
Add(a, b) == IF IsNaN(a) \/ IsNaN(b) THEN NaN ELSE a + b
Sub(a, b) == IF IsNaN(a) \/ IsNaN(b) THEN NaN ELSE a - b
Mul(a, b) == IF IsNaN(a) \/ IsNaN(b) THEN NaN ELSE a * b
Gt(a, b) == ~IsNaN(a) /\ ~IsNaN(b) /\ a > b

\* A time that is not a whole number of milliseconds: Half(n) stands for
\* n + 0.5 (n >= 0).  Adding a whole number to it gives a half again.
HalfMark == 100000
Half(n) == HalfMark + n
IsHalf(x) == ~IsNaN(x) /\ x >= HalfMark \div 2

\* The time value of new Date(ms): NaN stays NaN (an invalid date), other
\* values lose their fraction.
TimeClip(ms) == IF IsNaN(ms) THEN NaN ELSE IF IsHalf(ms) THEN ms - HalfMark ELSE ms

\* ---------------------------------------------------------------- JSON
\* A JSON value of a field: a number, null, a string, or no such key.
JNum(n) == [t |-> "number", v |-> n]
JNull == [t |-> "null", v |-> 0]
JStr == [t |-> "string", v |-> 0]
JMissing == [t |-> "undefined", v |-> 0]

JObject(r, b, s) == [kind |-> "object", baseRealTime |-> r, baseVirtualTime |-> b, speed |-> s]
NoItem == [kind |-> "absent", baseRealTime |-> JMissing, baseVirtualTime |-> JMissing, speed |-> JMissing]
BadJSON == [kind |-> "invalid", baseRealTime |-> JMissing, baseVirtualTime |-> JMissing, speed |-> JMissing]
JSONNull == [kind |-> "null", baseRealTime |-> JMissing, baseVirtualTime |-> JMissing, speed |-> JMissing]

\* JSON.stringify of a number: NaN is written as null.
StringifyNumber(x) == IF IsNaN(x) THEN JNull ELSE JNum(x)

JSONstringify(cs) ==
    JObject(StringifyNumber(cs.baseRealTime),
            StringifyNumber(cs.baseVirtualTime),
            StringifyNumber(cs.speed))

TypeofNumber(j) == j.t = "number"

ClockRec(r, b, s) == [baseRealTime |-> r, baseVirtualTime |-> b, speed |-> s]
Null == [found |-> FALSE, obj |-> ClockRec(0, 0, 0)]

loadState_presenceOnly(raw, readOk) ==
    IF ~readOk THEN Null
    ELSE IF raw.kind # "object" THEN Null
    ELSE IF raw.baseRealTime # JMissing /\ raw.baseVirtualTime # JMissing
            /\ raw.speed # JMissing
         THEN [found |-> TRUE,
               obj |-> ClockRec(raw.baseRealTime.v, raw.baseVirtualTime.v, raw.speed.v)]
         ELSE Null

\* loadState: getItem, JSON.parse, the three typeof checks; every failure
\* (getItem throwing, a parse error, reading a field of null) yields null.
loadState(raw, readOk) ==
    IF ~readOk THEN Null
    ELSE IF raw.kind = "absent" THEN Null
    ELSE IF raw.kind = "invalid" THEN Null
    ELSE IF raw.kind = "null" THEN Null
    ELSE IF TypeofNumber(raw.baseRealTime) /\ TypeofNumber(raw.baseVirtualTime)
            /\ TypeofNumber(raw.speed)
         THEN [found |-> TRUE,
               obj |-> ClockRec(raw.baseRealTime.v, raw.baseVirtualTime.v, raw.speed.v)]
         ELSE Null

\* saveState: the item after setItem(STORAGE_KEY, JSON.stringify(clockState));
\* a throwing setItem is swallowed and leaves the old item.
saveState(cs, old, writeOk) ==
    IF writeOk THEN JSONstringify(cs) ELSE old

\* ---------------------------------------------------------------- clock
\* Forgets the anchor: elapsed time counted from the epoch.
getVirtualNow_sinceEpoch(cs, nowReal) ==
    Add(cs.baseVirtualTime, Mul(nowReal, cs.speed))

getVirtualNow(cs, nowReal) ==
    LET elapsed == Sub(nowReal, cs.baseRealTime)
    IN  Add(cs.baseVirtualTime, Mul(elapsed, cs.speed))

\* A restored record would be anchored anew at the real time of the load.
initClockState_rebase(raw, readOk, now) ==
    LET loaded == loadState(raw, readOk)
    IN  IF loaded.found THEN ClockRec(now, loaded.obj.baseVirtualTime, loaded.obj.speed)
        ELSE ClockRec(now, now, 1)

\* The state that lines 50-59 leave in clockState.
initClockState(raw, readOk, now) ==
    LET loaded == loadState(raw, readOk)
    IN  IF loaded.found THEN loaded.obj ELSE ClockRec(now, now, 1)

\* The item that lines 50-59 leave in storage.
initStorage(raw, readOk, writeOk, now) ==
    IF loadState(raw, readOk).found THEN raw
    ELSE saveState(ClockRec(now, now, 1), raw, writeOk)

\* setTime's argument: a number, a Date (valid or invalid), undefined, or a
\* value with no getTime method.
NumberArg(ms) == [kind |-> "number", ms |-> ms]
DateArg(ms) == [kind |-> "date", ms |-> ms]
InvalidDateArg == [kind |-> "date", ms |-> NaN]
UndefinedArg == [kind |-> "undefined", ms |-> 0]
StringArg == [kind |-> "string", ms |-> 0]

\* dateOrMs.getTime() throws a TypeError for undefined and for a string.
setTimeThrows(dateOrMs) == dateOrMs.kind \notin {"number", "date"}

targetMs(dateOrMs) == dateOrMs.ms

setTimeState_keepBaseReal(cs, target, realNowV) ==
    ClockRec(cs.baseRealTime, target, cs.speed)

setTimeState_resetSpeed(cs, target, realNowV) ==
    ClockRec(realNowV, target, 1)

setTimeState(cs, target, realNowV) ==
    ClockRec(realNowV, target, cs.speed)

\* An off-by-one in the test: speed >= 0 lets 0 through.
safeSpeed_nonNegative(speed) == IF speed >= 0 THEN speed ELSE 1

safeSpeed(speed) == IF Gt(speed, 0) THEN speed ELSE 1

setSpeedState_speedOnly(cs, speed, realNowV) ==
    ClockRec(cs.baseRealTime, cs.baseVirtualTime, safeSpeed(speed))

setSpeedState_keepBaseReal(cs, speed, realNowV) ==
    ClockRec(cs.baseRealTime, getVirtualNow(cs, realNowV), safeSpeed(speed))

setSpeedState(cs, speed, realNowV) ==
    ClockRec(realNowV, getVirtualNow(cs, realNowV), safeSpeed(speed))

resetState_epoch(realNowV) == ClockRec(realNowV, 0, 1)

resetState(realNowV) == ClockRec(realNowV, realNowV, 1)

getClockState(cs, nowReal) ==
    [baseRealTime |-> cs.baseRealTime,
     baseVirtualTime |-> cs.baseVirtualTime,
     speed |-> cs.speed,
     virtualNow |-> getVirtualNow(cs, nowReal)]

\* ---------------------------------------------------------------- state
VARIABLES
    realNow,      \* what RealNow() returns
    clockState,   \* the clockState object
    storage,      \* the localStorage item under STORAGE_KEY
    subscribers,  \* the subscribers array; each entry is a listener function
                  \* (fn) tagged with the number of the subscribe call (id)
    stack,        \* deliveries in progress, innermost last
    handles,      \* the unsubscribe closures returned so far
    called,       \* ids whose unsubscribe closure has been called
    nextId,       \* number of the next subscribe call
    last,         \* the latest call of setTime / setSpeed / reset
    result        \* what the latest read of the clock or of Date returned

vars == <<realNow, clockState, storage, subscribers, stack, handles, called, nextId, last,
          result>>

Fn == {"f", "g"}
TimeArgs == {NumberArg(5), DateArg(7), InvalidDateArg, UndefinedArg, StringArg}
SpeedArgs == {-1, 0, 1, 2}

\* What localStorage may hold when the script starts.
InitialStorage ==
    {NoItem, BadJSON, JSONNull,
     JObject(JNum(0), JNum(0), JMissing),
     JObject(JNum(0), JStr, JNum(1)),
     JObject(JNull, JNum(0), JNum(1))}
    \cup {JObject(JNum(0), JNum(b), JNum(s)) : b \in {0, 3}, s \in {-1, 0, 1, 2}}

NoCall ==
    [op |-> "init", arg |-> 0, kind |-> "", real |-> 0, before |-> ClockRec(0, 0, 0),
     vBefore |-> 0, storageBefore |-> NoItem, threw |-> FALSE, wrote |-> FALSE,
     again |-> FALSE]

\* No call yet since the script was loaded at real time nowReal over the
\* item raw; kind tells whether getItem returned or threw, wrote whether the
\* defaulted state was saved.
Boot(raw, readOk, writeOk, nowReal) ==
    [NoCall EXCEPT !.kind = IF readOk THEN "read" ELSE "readThrows",
                   !.real = nowReal,
                   !.storageBefore = raw,
                   !.wrote = writeOk /\ ~loadState(raw, readOk).found]

\* The record of a reload.  again: an earlier load of the script stored its
\* defaulted state and no call was made since; arg: the real time of that
\* load.
Restart(boot) ==
    [boot EXCEPT !.again = last.op = "init" /\ (last.wrote \/ last.again),
                 !.arg = IF last.op = "init" /\ last.wrote THEN last.real
                         ELSE IF last.op = "init" /\ last.again THEN last.arg
                         ELSE 0]

\* again: the call repeats the previous call's operation at the same real
\* instant.
Call(op, arg, kind, threw, wrote) ==
    [op |-> op, arg |-> arg, kind |-> kind, real |-> realNow, before |-> clockState,
     vBefore |-> getVirtualNow(clockState, realNow), storageBefore |-> storage,
     threw |-> threw, wrote |-> wrote,
     again |-> (last.op = op /\ last.real = realNow /\ ~last.threw)]

Ids(regs) == {regs[i].id : i \in DOMAIN regs}

Top == stack[Len(stack)]
Pop(stk) == SubSeq(stk, 1, Len(stk) - 1)

\* Code is running that can call the API: the page's own code while no
\* delivery is in progress, or the listener being invoked.
Callable == IF stack = <<>> THEN TRUE ELSE Top.running

\* What a read returned: a number (the time value, for a date; the instant
\* shown, for a string) or a snapshot.
NoSnapshot == [baseRealTime |-> 0, baseVirtualTime |-> 0, speed |-> 0, virtualNow |-> 0]
NoResult == [op |-> "none", arg |-> 0, value |-> 0, state |-> NoSnapshot]

\* Lines 50-59, run when the script is loaded.
Init ==
    /\ realNow = 0
    /\ \E raw \in InitialStorage, readOk \in BOOLEAN, writeOk \in BOOLEAN :
         /\ clockState = initClockState(raw, readOk, realNow)
         /\ storage = initStorage(raw, readOk, writeOk, realNow)
         /\ last = Boot(raw, readOk, writeOk, realNow)
    /\ subscribers = <<>>
    /\ stack = <<>>
    /\ handles = {}
    /\ called = {}
    /\ nextId = 1
    /\ result = NoResult

\* The page is reloaded: the script runs again over the stored item.
Reload ==
    /\ stack = <<>>
    /\ \E readOk \in BOOLEAN, writeOk \in BOOLEAN :
         /\ clockState' = initClockState(storage, readOk, realNow)
         /\ storage' = initStorage(storage, readOk, writeOk, realNow)
         /\ last' = Restart(Boot(storage, readOk, writeOk, realNow))
    /\ subscribers' = <<>>
    /\ handles' = {}
    /\ called' = {}
    /\ nextId' = 1
    /\ UNCHANGED <<realNow, stack, result>>

Tick ==
    /\ realNow < MaxReal
    /\ realNow' = realNow + 1
    /\ UNCHANGED <<clockState, storage, subscribers, stack, handles, called, nextId, last, result>>

\* ---------------------------------------------------------------- delivery
\* notifySubscribers: the snapshot is taken once, then forEach visits the
\* indices 0 .. length-at-start - 1 that still exist when their turn comes.
\* start, active, invoked, late, threw and call record the delivery: the
\* registrations at its start, the ones invoked, the ones whose listener
\* threw, and the call that started it.
notifyFrame(cs, regs, call) ==
    [kind |-> "notify", snapshot |-> getClockState(cs, realNow), idx |-> 1,
     len |-> Len(regs), running |-> FALSE, start |-> Ids(regs),
     active |-> (1..(nextId - 1)) \ called, invoked |-> <<>>, late |-> {},
     threw |-> {}, call |-> call]

\* An uncaught listener error would abandon the forEach.
afterCallback_uncaught(stk, threw) ==
    LET top == stk[Len(stk)]
    IN  IF top.kind = "notify"
        THEN [stk EXCEPT ![Len(stk)] =
                [top EXCEPT !.running = FALSE,
                            !.idx = IF threw THEN top.len + 1 ELSE @ + 1,
                            !.threw = IF threw THEN @ \cup {top.invoked[Len(top.invoked)]}
                                      ELSE @]]
        ELSE Pop(stk)

\* The stack after the listener on top of it has returned (threw = FALSE) or
\* thrown into the try/catch around its call (threw = TRUE): forEach moves
\* on; subscribe returns.
afterCallback(stk, threw) ==
    LET top == stk[Len(stk)]
    IN  IF top.kind = "notify"
        THEN [stk EXCEPT ![Len(stk)] =
                [top EXCEPT !.running = FALSE,
                            !.idx = @ + 1,
                            !.threw = IF threw THEN @ \cup {top.invoked[Len(top.invoked)]}
                                      ELSE @]]
        ELSE Pop(stk)

\* The unsubscribe closures after the listener on top of the stack has ended:
\* subscribe returns one whether its immediate call returned or threw (threw
\* records which).
handlesAfterCallback(stk, threw) ==
    LET top == stk[Len(stk)]
    IN  IF top.kind = "subscribe"
        THEN handles \cup {[fn |-> top.reg.fn, id |-> top.reg.id, threw |-> threw]}
        ELSE handles

\* The failure of a write would reach the caller: no delivery.
Mutate_writeThrows(cs, writeOk) ==
    /\ clockState' = cs
    /\ storage' = saveState(cs, storage, writeOk)
    /\ stack' = IF writeOk THEN Append(stack, notifyFrame(cs, subscribers, last'))
                ELSE stack
    /\ UNCHANGED <<realNow, subscribers, handles, called, nextId, result>>

\* A mutation's tail: saveState(); notifySubscribers().
Mutate(cs, writeOk) ==
    /\ clockState' = cs
    /\ storage' = saveState(cs, storage, writeOk)
    /\ stack' = Append(stack, notifyFrame(cs, subscribers, last'))
    /\ UNCHANGED <<realNow, subscribers, handles, called, nextId, result>>

setTime(dateOrMs, writeOk) ==
    /\ Callable
    /\ Len(stack) < MaxDepth
    /\ IF setTimeThrows(dateOrMs)
       THEN /\ last' = Call("setTime", targetMs(dateOrMs), dateOrMs.kind, TRUE, FALSE)
            /\ IF stack = <<>>
               THEN UNCHANGED <<stack, handles>>
               ELSE /\ stack' = afterCallback(stack, TRUE)
                    /\ handles' = handlesAfterCallback(stack, TRUE)
            /\ UNCHANGED <<realNow, clockState, storage, subscribers, called, nextId, result>>
       ELSE /\ last' = Call("setTime", targetMs(dateOrMs), dateOrMs.kind, FALSE, writeOk)
            /\ Mutate(setTimeState(clockState, targetMs(dateOrMs), realNow), writeOk)

setSpeed(speed, writeOk) ==
    /\ Callable
    /\ Len(stack) < MaxDepth
    /\ last' = Call("setSpeed", speed, "number", FALSE, writeOk)
    /\ Mutate(setSpeedState(clockState, speed, realNow), writeOk)

reset(writeOk) ==
    /\ Callable
    /\ Len(stack) < MaxDepth
    /\ last' = Call("reset", 0, "", FALSE, writeOk)
    /\ Mutate(resetState(realNow), writeOk)

\* forEach calls the listener at the next index.
Invoke ==
    /\ stack # <<>>
    /\ Top.kind = "notify"
    /\ ~Top.running
    /\ Top.idx <= Top.len
    /\ Top.idx <= Len(subscribers)
    /\ stack' = [stack EXCEPT ![Len(stack)] =
                    [Top EXCEPT !.running = TRUE,
                                !.invoked = Append(@, subscribers[Top.idx].id),
                                !.late = @ \cup ({subscribers[Top.idx].id} \cap called)]]
    /\ UNCHANGED <<realNow, clockState, storage, subscribers, handles, called, nextId, last, result>>

\* forEach skips an index that a splice has removed from the array.
SkipMissing ==
    /\ stack # <<>>
    /\ Top.kind = "notify"
    /\ ~Top.running
    /\ Top.idx <= Top.len
    /\ Top.idx > Len(subscribers)
    /\ stack' = [stack EXCEPT ![Len(stack)] = [Top EXCEPT !.idx = @ + 1]]
    /\ UNCHANGED <<realNow, clockState, storage, subscribers, handles, called, nextId, last, result>>

\* The listener being invoked returns.
CallbackReturn ==
    /\ stack # <<>>
    /\ Top.running
    /\ Top.kind # "apply"
    /\ stack' = afterCallback(stack, FALSE)
    /\ handles' = handlesAfterCallback(stack, FALSE)
    /\ UNCHANGED <<realNow, clockState, storage, subscribers, called, nextId, last, result>>

\* The listener being invoked throws; the catch around the call logs it.
CallbackThrow ==
    /\ stack # <<>>
    /\ Top.running
    /\ Top.kind # "apply"
    /\ stack' = afterCallback(stack, TRUE)
    /\ handles' = handlesAfterCallback(stack, TRUE)
    /\ UNCHANGED <<realNow, clockState, storage, subscribers, called, nextId, last, result>>

\* notifySubscribers returns to the mutation that called it.
NotifyReturn ==
    /\ stack # <<>>
    /\ Top.kind = "notify"
    /\ ~Top.running
    /\ Top.idx > Top.len
    /\ stack' = Pop(stack)
    /\ UNCHANGED <<realNow, clockState, storage, subscribers, handles, called, nextId, last, result>>

\* subscribe(fn) with a function: push, then the immediate call.
subscribe(fn) ==
    /\ Callable
    /\ Len(stack) < MaxDepth
    /\ nextId <= MaxRegs
    /\ LET reg == [fn |-> fn, id |-> nextId]
       IN  /\ subscribers' = Append(subscribers, reg)
           /\ stack' = Append(stack,
                 [kind |-> "subscribe", snapshot |-> getClockState(clockState, realNow),
                  idx |-> Len(subscribers) + 1, len |-> Len(subscribers) + 1,
                  running |-> TRUE, start |-> {nextId}, active |-> {nextId},
                  invoked |-> <<nextId>>, late |-> {}, threw |-> {},
                  call |-> last, reg |-> reg])
    /\ nextId' = nextId + 1
    /\ UNCHANGED <<realNow, clockState, storage, handles, called, last, result>>

indexOf(regs, fn) ==
    IF \E i \in DOMAIN regs : regs[i].fn = fn
    THEN CHOOSE i \in DOMAIN regs :
            /\ regs[i].fn = fn
            /\ \A j \in 1..(i - 1) : regs[j].fn # fn
    ELSE 0

splice(regs, idx) == SubSeq(regs, 1, idx - 1) \o SubSeq(regs, idx + 1, Len(regs))

\* The closure returned by subscribe(fn): indexOf(fn), then splice.
unsubscribeResult(regs, fn) ==
    LET idx == indexOf(regs, fn)
    IN  IF idx >= 1 THEN splice(regs, idx) ELSE regs

\* The array holds function references only, so entries of one function
\* are interchangeable: when the closure of subscribe call id removes an
\* entry of its function that carries another tag while its own is still in
\* the array, the two tags are exchanged, so that id is the one removed.
retag(regs, fn, id) ==
    LET idx == indexOf(regs, fn)
    IN  IF idx >= 1 /\ regs[idx].id # id /\ id \in Ids(regs)
        THEN [i \in DOMAIN regs |->
                IF i = idx THEN [fn |-> fn, id |-> id]
                ELSE IF regs[i].id = id THEN [fn |-> fn, id |-> regs[idx].id]
                ELSE regs[i]]
        ELSE regs

unsubscribe(h) ==
    /\ Callable
    /\ h \in handles
    /\ subscribers' = unsubscribeResult(retag(subscribers, h.fn, h.id), h.fn)
    /\ called' = called \cup {h.id}
    /\ UNCHANGED <<realNow, clockState, storage, stack, handles, nextId, last, result>>

\* ---------------------------------------------------------------- reads
Read(op, arg, value, state) ==
    /\ Callable
    /\ result' = [op |-> op, arg |-> arg, value |-> value, state |-> state]
    /\ UNCHANGED <<realNow, clockState, storage, subscribers, stack, handles, called,
                   nextId, last>>

\* VirtualClock.now()
nowCall == Read("now", 0, getVirtualNow(clockState, realNow), NoSnapshot)

\* VirtualClock.getDate()
getDate == Read("getDate", 0, TimeClip(getVirtualNow(clockState, realNow)), NoSnapshot)

\* VirtualClock.getState()
getState == Read("getState", 0, 0, getClockState(clockState, realNow))

\* Date.now() after the patch
VirtualDateNow == Read("Date.now", 0, getVirtualNow(clockState, realNow), NoSnapshot)

\* Without the patch: new Date() is the real current time.
VirtualDateNew_real == Read("new Date", 0, TimeClip(realNow), NoSnapshot)

\* new Date()
VirtualDateNew == Read("new Date", 0, TimeClip(getVirtualNow(clockState, realNow)), NoSnapshot)

\* new Date(ms)
VirtualDateNewArgs(ms) == Read("new Date(ms)", ms, TimeClip(ms), NoSnapshot)

\* Date(): the string of the real current time
VirtualDateCall == Read("Date()", 0, TimeClip(realNow), NoSnapshot)

\* window.RealDate.now()
RealDateNow == Read("RealDate.now", 0, realNow, NoSnapshot)

\* ---------------------------------------------------------------- panel
\* The value of the date-time field: empty, a date with no "T" part, a text
\* with a field that parseInt cannot read, or a date-time whose five fields
\* new RealDate(yy, mm - 1, dd, HH, MM) turns into the instant ms.
EmptyInput == [value |-> "empty", ms |-> 0]
DateOnlyInput == [value |-> "dateOnly", ms |-> 0]
BadFieldInput == [value |-> "badField", ms |-> 0]
DateTimeInput(ms) == [value |-> "dateTime", ms |-> ms]

\* The tests of lines 534-540: a value, both parts, five numbers.
inputParses(val) == val.value = "dateTime"

\* parseFloat of the speed field passes the test of line 549.
speedApplies(speedVal) == ~IsNaN(speedVal) /\ speedVal > 0

\* The Apply button is clicked with val in the date-time field and a speed
\* field that parseFloat reads as speedVal: the handler starts.
applyClick(val, speedVal) ==
    /\ stack = <<>>
    /\ last' = Call("apply", 0, "", FALSE, FALSE)
    /\ stack' = <<[kind |-> "apply", running |-> TRUE, val |-> val,
                   speedVal |-> speedVal, call |-> last']>>
    /\ UNCHANGED <<realNow, clockState, storage, subscribers, handles, called, nextId,
                   result>>

\* The handler is past its first part, lines 533-545.
atSpeed ==
    /\ stack # <<>>
    /\ Top.kind = "apply"
    /\ \/ last.op = "setTime"
       \/ last.op = "apply" /\ ~inputParses(Top.val)

\* The handler is past its second part, lines 548-551.
atEnd ==
    /\ stack # <<>>
    /\ Top.kind = "apply"
    /\ \/ last.op = "setSpeed"
       \/ atSpeed /\ ~speedApplies(Top.speedVal)

\* Lines 533-545: VirtualClock.setTime(newDate).
applyTime ==
    /\ stack # <<>>
    /\ Top.kind = "apply"
    /\ last.op = "apply"
    /\ inputParses(Top.val)
    /\ setTime(DateArg(Top.val.ms), TRUE)

\* Lines 548-551: VirtualClock.setSpeed(speedVal).
applySpeed ==
    /\ atSpeed
    /\ speedApplies(Top.speedVal)
    /\ setSpeed(Top.speedVal, TRUE)

\* The handler returns.
applyReturn ==
    /\ atEnd
    /\ stack' = Pop(stack)
    /\ UNCHANGED <<realNow, clockState, storage, subscribers, handles, called, nextId,
                   last, result>>

\* ---------------------------------------------------------------- specifications
\* The clock on a page with no listener: every start-up item, every argument,
\* storage writes that succeed or throw.
NextClock ==
    \/ Tick
    \/ Reload
    \/ \E a \in TimeArgs, writeOk \in BOOLEAN : setTime(a, writeOk)
    \/ \E s \in SpeedArgs, writeOk \in BOOLEAN : setSpeed(s, writeOk)
    \/ \E writeOk \in BOOLEAN : reset(writeOk)
    \/ NotifyReturn

SpecClock == Init /\ [][NextClock]_vars

\* The subscriber list and its deliveries, on a first visit (no stored item,
\* getItem returns).
InitNotify ==
    /\ Init
    /\ last.storageBefore = NoItem
    /\ last.kind = "read"

NextNotify ==
    \/ setTime(NumberArg(5), TRUE)
    \/ reset(TRUE)
    \/ \E fn \in Fn : subscribe(fn)
    \/ \E h \in handles : unsubscribe(h)
    \/ Invoke
    \/ SkipMissing
    \/ CallbackReturn
    \/ NotifyReturn

SpecNotify == InitNotify /\ [][NextNotify]_vars

\* Listeners that throw: deliveries of setTime(5), with listeners that
\* subscribe, mutate, return or throw.
NextThrow ==
    \/ setTime(NumberArg(5), TRUE)
    \/ \E fn \in Fn : subscribe(fn)
    \/ Invoke
    \/ CallbackReturn
    \/ CallbackThrow
    \/ NotifyReturn

SpecThrow == InitNotify /\ [][NextThrow]_vars

\* Storage writes that succeed or throw, with listeners registered: the
\* page calls setTime and reset as real time passes; listeners only return.
WriteTimeArgs == {NumberArg(5), InvalidDateArg}

NextWrite ==
    \/ Tick
    \/ stack = <<>> /\ \E a \in WriteTimeArgs, writeOk \in BOOLEAN : setTime(a, writeOk)
    \/ stack = <<>> /\ \E writeOk \in BOOLEAN : reset(writeOk)
    \/ stack = <<>> /\ \E fn \in Fn : subscribe(fn)
    \/ Invoke
    \/ CallbackReturn
    \/ NotifyReturn

SpecWrite == InitNotify /\ [][NextWrite]_vars

\* setSpeed with listeners registered, as real time passes: the page calls
\* setSpeed; listeners only return.
NextSpeed ==
    \/ Tick
    \/ stack = <<>> /\ \E s \in {-1, 0, 2}, writeOk \in BOOLEAN : setSpeed(s, writeOk)
    \/ stack = <<>> /\ \E fn \in Fn : subscribe(fn)
    \/ Invoke
    \/ CallbackReturn
    \/ NotifyReturn

SpecSpeed == InitNotify /\ [][NextSpeed]_vars

\* Reads of the clock and of the patched Date, at page level and inside
\* listeners, between calls of setTime and setSpeed made by the page as real
\* time passes.
ReadTimeArgs == {NumberArg(Half(5))}
DateArgs == {7, Half(7), NaN}

NextRead ==
    \/ Tick
    \/ stack = <<>> /\ \E a \in ReadTimeArgs : setTime(a, TRUE)
    \/ stack = <<>> /\ setSpeed(2, TRUE)
    \/ stack = <<>> /\ subscribe("f")
    \/ Invoke
    \/ CallbackReturn
    \/ NotifyReturn
    \/ nowCall
    \/ getDate
    \/ getState
    \/ VirtualDateNow
    \/ VirtualDateNew
    \/ \E ms \in DateArgs : VirtualDateNewArgs(ms)
    \/ VirtualDateCall
    \/ RealDateNow

SpecRead == InitNotify /\ [][NextRead]_vars

\* The panel's Apply button, with listeners that return or unsubscribe, as
\* real time passes.
ApplyInputs == {EmptyInput, DateOnlyInput, BadFieldInput, DateTimeInput(5)}
ApplySpeeds == {NaN, -1, 0, 2}

NextApply ==
    \/ Tick
    \/ \E val \in ApplyInputs, speedVal \in ApplySpeeds : applyClick(val, speedVal)
    \/ applyTime
    \/ applySpeed
    \/ applyReturn
    \/ stack = <<>> /\ \E fn \in Fn : subscribe(fn)
    \/ stack # <<>> /\ Top.kind = "notify" /\ \E h \in handles : unsubscribe(h)
    \/ Invoke
    \/ SkipMissing
    \/ CallbackReturn
    \/ NotifyReturn

SpecApply == InitNotify /\ [][NextApply]_vars

\* ================================================================ claims
now == getVirtualNow(clockState, realNow)

Mutated == last.op \in {"setTime", "setSpeed", "reset"} /\ ~last.threw

\* d real milliseconds after the latest call
SinceCall == realNow - last.real

\* v + d * rate in the clock's arithmetic, written out
Advance(v, d, rate) == IF v = NaN THEN NaN ELSE v + d * rate

\* C1: setSpeed causes no discontinuity: with no real time elapsed since the
\* call, now() is the value now() had immediately before the call, for a
\* positive, zero or negative argument.
C1_SetSpeedContinuous ==
    (last.op = "setSpeed" /\ SinceCall = 0) => now = last.vBefore

\* setSpeed with a non-positive argument was called after time had elapsed
\* at speed 2, and no real time has passed since.
C1_Witness ==
    /\ last.op = "setSpeed"
    /\ SinceCall = 0
    /\ last.arg <= 0
    /\ last.before.speed = 2
    /\ last.real > last.before.baseRealTime

\* C2: d real milliseconds after setSpeed(s) with s > 0, now() is the virtual
\* time at the call plus d * s: time elapsed before the call is not replayed
\* at the new rate.
C2_NoReplay ==
    (last.op = "setSpeed" /\ last.arg > 0) =>
        now = Advance(last.vBefore, SinceCall, last.arg)

\* setSpeed(2) was called after time had elapsed at speed 1, and real time
\* has passed since.
C2_Witness ==
    /\ last.op = "setSpeed"
    /\ last.arg = 2
    /\ last.before.speed = 1
    /\ last.real > last.before.baseRealTime
    /\ SinceCall > 0

\* C3: the stored speed is strictly positive in every reachable state,
\* restored states included.
C3_SpeedPositive == Gt(clockState.speed, 0)

\* C4: after a mutation (whose write succeeded), reloading from the persisted
\* record restores the live baseRealTime, baseVirtualTime and speed.
C4_RoundTrip ==
    (Mutated /\ last.wrote) =>
        /\ loadState(storage, TRUE).found
        /\ loadState(storage, TRUE).obj = clockState

InvalidTimeInput == last.kind \notin {"number", "date"} \/ IsNaN(last.arg)

\* C8: setTime with an unparseable target does not fail the caller and leaves
\* clockState and the persisted record unchanged.
C8_InvalidTimeIgnored ==
    (last.op = "setTime" /\ InvalidTimeInput) =>
        /\ ~last.threw
        /\ clockState = last.before
        /\ storage = last.storageBefore

\* C9: after setTime(T) with a valid T, now() is T plus d times the speed in
\* effect at the call, d real milliseconds later (T itself when d = 0), and
\* the speed is the one in effect at the call.
C9_SetTimePins ==
    (last.op = "setTime" /\ ~InvalidTimeInput) =>
        /\ now = last.arg + SinceCall * last.before.speed
        /\ clockState.speed = last.before.speed

\* setTime(5) was called at speed 2 and real time has passed since.
C9_Witness ==
    /\ last.op = "setTime"
    /\ last.arg = 5
    /\ last.before.speed = 2
    /\ SinceCall > 0

\* C10 as stated: after every mutation baseRealTime is the real time of the
\* mutation and baseVirtualTime the virtual time just before it, except for
\* setTime, where it is the target.
C10_RebaseAsStated ==
    Mutated =>
        /\ clockState.baseRealTime = last.real
        /\ clockState.baseVirtualTime =
              (IF last.op = "setTime" THEN last.arg ELSE last.vBefore)

\* C10 amended: after every setTime, setSpeed or reset that returns,
\* baseRealTime is the real time of the mutation; baseVirtualTime is the
\* target for setTime, the real time of the mutation for reset, and the
\* virtual time just before the mutation for setSpeed.
C10_Rebase ==
    Mutated =>
        /\ clockState.baseRealTime = last.real
        /\ clockState.baseVirtualTime =
              (CASE last.op = "setTime" -> last.arg
                 [] last.op = "reset" -> last.real
                 [] OTHER -> last.vBefore)

\* reset was called while virtual time differed from real time, after real
\* time had passed since the previous base.
C10_Witness ==
    /\ last.op = "reset"
    /\ last.vBefore # last.real
    /\ last.real > last.before.baseRealTime

\* ---------------------------------------------------------------- listeners
Count(seq, x) == Cardinality({i \in DOMAIN seq : seq[i] = x})
Fns(regs) == [i \in DOMAIN regs |-> regs[i].fn]
RemoveId(regs, id) == SelectSeq(regs, LAMBDA r : r.id # id)
Finished(frame) == frame.kind = "notify" /\ ~frame.running /\ frame.idx > frame.len
Increasing(seq) == \A i, j \in DOMAIN seq : i < j => seq[i] < seq[j]

\* C5: a listener is invoked once during its subscribe call, once for each
\* mutation made while its subscription is active (subscribed, its
\* unsubscribe function not called), and not after its unsubscribe function
\* has been called.
C5_OncePerMutation ==
    \A k \in DOMAIN stack :
        /\ stack[k].kind = "subscribe" => stack[k].invoked = <<stack[k].reg.id>>
        /\ stack[k].late = {}
        /\ Finished(stack[k]) =>
              \A id \in stack[k].active \ called : Count(stack[k].invoked, id) = 1

\* C6: a mutation invokes every listener that is registered when it is made
\* and still registered when its turn comes exactly once, in subscription
\* order, also when listeners subscribe or unsubscribe during delivery.
C6_DeliveryInOrder ==
    \A k \in DOMAIN stack :
        Finished(stack[k]) =>
            /\ \A id \in stack[k].start \cap Ids(subscribers) :
                  Count(stack[k].invoked, id) = 1
            /\ Increasing(stack[k].invoked)

\* C7: the first call of an unsubscribe function removes the registration of
\* the subscribe call that returned it and keeps the others in order; every
\* later call leaves the registry unchanged.
C7_UnsubscribeIdempotent ==
    [][\A h \in handles :
          unsubscribe(h) =>
              IF h.id \in called
              THEN subscribers' = subscribers
              ELSE /\ Ids(subscribers') = Ids(subscribers) \ {h.id}
                   /\ Fns(subscribers') = Fns(RemoveId(subscribers, h.id))]_vars

\* ---------------------------------------------------------------- start-up
\* The stored item is not a record of three numbers.
Malformed(raw) ==
    \/ raw.kind # "object"
    \/ raw.baseRealTime.t # "number"
    \/ raw.baseVirtualTime.t # "number"
    \/ raw.speed.t # "number"

\* C11: when the stored item is absent, not JSON, not an object, lacks a
\* field or holds a non-number in one, or when getItem throws, start-up does
\* not fail and leaves baseRealTime = baseVirtualTime = the real time of
\* start-up and speed = 1.
C11_MalformedDefaults ==
    (last.op = "init" /\ (last.kind = "readThrows" \/ Malformed(last.storageBefore))) =>
        /\ ~last.threw
        /\ clockState = [baseRealTime |-> last.real, baseVirtualTime |-> last.real,
                         speed |-> 1]

\* The page was reloaded, after real time had passed, over a record whose
\* baseVirtualTime is null.
C11_Witness ==
    /\ last.op = "init"
    /\ last.kind = "read"
    /\ last.real > 0
    /\ last.storageBefore.kind = "object"
    /\ last.storageBefore.baseVirtualTime.t = "null"

Le(a, b) == ~IsNaN(a) /\ ~IsNaN(b) /\ a <= b

\* C14: while real time advances and no mutation is made, now() does not
\* decrease, in every reachable state.
C14_Monotonic ==
    [][Tick => Le(getVirtualNow(clockState, realNow),
                  getVirtualNow(clockState', realNow'))]_vars

\* C15: after reset() the state is baseRealTime = baseVirtualTime = the real
\* time of the call and speed = 1, and now() is the real time; a reset()
\* that follows a reset() at the same real instant leaves the state and
\* now() as the first one left them.
C15_ResetIdempotent ==
    last.op = "reset" =>
        /\ clockState = [baseRealTime |-> last.real, baseVirtualTime |-> last.real,
                         speed |-> 1]
        /\ now = realNow
        /\ last.again => (clockState = last.before /\ last.vBefore = last.real)

\* reset() was called twice at the same real instant, after real time had
\* passed.
C15_Witness ==
    /\ last.op = "reset"
    /\ last.again
    /\ last.real > 0

\* The state a mutating call is specified to leave behind: setTime pins the
\* target and keeps the rate, setSpeed keeps the virtual instant and takes
\* the positive rate (1 otherwise), reset returns to real time at rate 1;
\* each re-bases at the real instant of the call.
Expected(call) ==
    CASE call.op = "setTime"  -> ClockRec(call.real, call.arg, call.before.speed)
      [] call.op = "setSpeed" -> ClockRec(call.real, call.vBefore,
                                          IF call.arg > 0 THEN call.arg ELSE 1)
      [] call.op = "reset"    -> ClockRec(call.real, call.real, 1)
      [] OTHER                -> call.before

\* C12: a listener that throws does not stop delivery: once the delivery of
\* a mutation in which some listener threw has finished, every listener
\* registered at its start has been invoked exactly once, in registration
\* order; the mutation's state and its persisted record are kept; and a
\* subscribe call whose immediate invocation threw has still registered the
\* listener and returned its unsubscribe function.
C12_ThrowContained ==
    /\ \A k \in DOMAIN stack :
          (stack[k].kind = "notify" /\ stack[k].threw # {}) =>
             /\ ~stack[k].call.threw
             /\ stack[k].call = last =>
                   /\ clockState = Expected(last)
                   /\ last.wrote => storage = JSONstringify(Expected(last))
             /\ Finished(stack[k]) =>
                   /\ \A id \in stack[k].start : Count(stack[k].invoked, id) = 1
                   /\ Increasing(stack[k].invoked)
    /\ \A h \in handles : h.threw => h.id \in Ids(subscribers)

\* The first of two listeners threw, both were invoked, and a subscribe call
\* whose immediate invocation threw has returned.
C12_Witness ==
    /\ stack # <<>>
    /\ Finished(stack[1])
    /\ Len(stack[1].invoked) = 2
    /\ stack[1].invoked[1] \in stack[1].threw
    /\ \E h \in handles : h.threw

\* C13: every snapshot handed to a listener carries the baseRealTime,
\* baseVirtualTime and speed that clockState holds at the moment of that
\* delivery, also when a listener mutates the clock from inside its
\* callback.
C13_FreshSnapshot ==
    [][Invoke =>
         /\ stack'[Len(stack')].snapshot.baseRealTime = clockState.baseRealTime
         /\ stack'[Len(stack')].snapshot.baseVirtualTime = clockState.baseVirtualTime
         /\ stack'[Len(stack')].snapshot.speed = clockState.speed]_vars

\* C16: a storage write that throws is swallowed: the mutating call
\* returns, clockState holds the new values while the stored item still is
\* the one from before, now() is computed from clockState, a delivery of the
\* new state to every registered listener starts and reaches each of them,
\* and a start-up that cannot store its default still runs from the default.
C16_BestEffortWrite ==
    /\ [][((\E a \in WriteTimeArgs : setTime(a, FALSE)) \/ reset(FALSE)) =>
            /\ ~last'.threw
            /\ clockState' = Expected(last')
            /\ storage' = storage
            /\ Len(stack') = Len(stack) + 1
            /\ stack'[Len(stack')].kind = "notify"
            /\ stack'[Len(stack')].len = Len(subscribers)
            /\ stack'[Len(stack')].snapshot = getClockState(Expected(last'), realNow)]_vars
    /\ [](/\ (Mutated /\ ~last.wrote) =>
               /\ clockState = Expected(last)
               /\ storage = last.storageBefore
               /\ now = Advance(Expected(last).baseVirtualTime, SinceCall,
                                Expected(last).speed)
          /\ (last.op = "init" /\ last.storageBefore = NoItem /\ ~last.wrote) =>
               /\ ~last.threw
               /\ clockState = ClockRec(last.real, last.real, 1)
               /\ storage = NoItem
          /\ \A k \in DOMAIN stack :
               (Finished(stack[k]) /\ ~stack[k].call.wrote) =>
                   \A id \in stack[k].start : Count(stack[k].invoked, id) = 1)

\* A setTime whose write threw has been delivered to two listeners, real
\* time has passed since, and the stored item is not the record of the state
\* in memory.
C16_Witness ==
    /\ stack # <<>>
    /\ Finished(stack[1])
    /\ stack[1].call.op = "setTime"
    /\ ~stack[1].call.wrote
    /\ Len(stack[1].invoked) = 2
    /\ clockState.baseVirtualTime = 5
    /\ realNow > clockState.baseRealTime
    /\ storage # JSONstringify(clockState)

\* C19: setSpeed with a speed that is not positive stores and persists
\* speed 1, re-bases at the real time of the call and the virtual time just
\* before it, and starts a delivery of that state that reaches every
\* registered listener.
C19_NonPositiveSpeed ==
    /\ [][(\E s \in {-1, 0}, writeOk \in BOOLEAN : setSpeed(s, writeOk)) =>
            /\ clockState' = ClockRec(realNow, now, 1)
            /\ last'.wrote =>
                  storage' = JObject(JNum(realNow), StringifyNumber(now), JNum(1))
            /\ Len(stack') = Len(stack) + 1
            /\ stack'[Len(stack')].kind = "notify"
            /\ stack'[Len(stack')].len = Len(subscribers)
            /\ stack'[Len(stack')].snapshot.speed = 1
            /\ stack'[Len(stack')].snapshot.virtualNow = now]_vars
    /\ [](/\ (last.op = "setSpeed" /\ last.arg <= 0) =>
               clockState = ClockRec(last.real, last.vBefore, 1)
          /\ \A k \in DOMAIN stack :
               (Finished(stack[k]) /\ stack[k].call.op = "setSpeed"
                                   /\ stack[k].call.arg <= 0) =>
                   \A id \in stack[k].start : Count(stack[k].invoked, id) = 1)

\* setSpeed(0) at rate 2, some real time after the previous anchor, has
\* been stored and delivered to a listener.
C19_Witness ==
    /\ stack # <<>>
    /\ Finished(stack[1])
    /\ stack[1].call.op = "setSpeed"
    /\ stack[1].call.arg = 0
    /\ stack[1].call.wrote
    /\ stack[1].call.before.speed = 2
    /\ stack[1].call.real > stack[1].call.before.baseRealTime
    /\ Len(stack[1].invoked) >= 1

\* C20: while a listener is being invoked for a mutation whose write
\* succeeded, the stored item already is the record of the new clockState:
\* loading it gives back baseRealTime, baseVirtualTime and speed of the
\* state in memory.
C20_PersistBeforeNotify ==
    \A k \in DOMAIN stack :
        (stack[k].kind = "notify" /\ stack[k].running /\ stack[k].call = last
                                  /\ last.wrote) =>
            /\ loadState(storage, TRUE).found
            /\ loadState(storage, TRUE).obj = clockState

\* ---------------------------------------------------------------- reads
\* baseVirtualTime + (RealNow() - baseRealTime) * speed, written out
VirtualNow ==
    clockState.baseVirtualTime + (realNow - clockState.baseRealTime) * clockState.speed

\* C17: now(), getDate() and getState() change neither clockState nor the
\* stored item nor the subscribers array and start no delivery; now() returns
\* baseVirtualTime + (RealNow() - baseRealTime) * speed, getDate() the date
\* of that instant, getState() the three fields with that value as
\* virtualNow; state {1000, 50000, 2} read at real time 1500 gives 51000.
C17_PureReads ==
    /\ [][(nowCall \/ getDate \/ getState) =>
            /\ UNCHANGED <<clockState, storage, subscribers, stack, realNow>>
            /\ result'.op = "now" => result'.value = VirtualNow
            /\ result'.op = "getDate" => result'.value = TimeClip(VirtualNow)
            /\ result'.op = "getState" =>
                  result'.state = [baseRealTime |-> clockState.baseRealTime,
                                   baseVirtualTime |-> clockState.baseVirtualTime,
                                   speed |-> clockState.speed,
                                   virtualNow |-> VirtualNow]]_vars
    /\ [](getVirtualNow(ClockRec(1000, 50000, 2), 1500) = 51000)

\* now() has been read inside a listener's callback, at rate 2, some real
\* time after the anchor.
C17_Witness ==
    /\ result.op = "now"
    /\ stack # <<>>
    /\ Top.running
    /\ clockState.speed = 2
    /\ realNow > clockState.baseRealTime
    /\ result.value = VirtualNow

\* C18: Date.now() and new Date() give exactly now(); new Date(ms) gives the
\* date of ms and Date() the string of the real current time, whatever
\* clockState holds; RealDate.now() gives the real time, which no mutation
\* changes.
C18_DateRouting ==
    [][/\ VirtualDateNow => result'.value = VirtualNow
       /\ VirtualDateNew => result'.value = VirtualNow
       /\ (\E ms \in DateArgs : VirtualDateNewArgs(ms)) => result'.value = TimeClip(result'.arg)
       /\ VirtualDateCall => result'.value = realNow
       /\ RealDateNow => result'.value = realNow
       /\ clockState' # clockState => realNow' = realNow]_vars

\* C18 with the resolution of a date: Date.now() gives exactly now();
\* new Date() gives the date of now(), whose time value is now() without its
\* fraction of a millisecond; new Date(ms) gives the date of ms and Date()
\* the string of the real current time, whatever clockState holds;
\* RealDate.now() gives the real time, which no mutation changes.
C18_DateRoutingClipped ==
    [][/\ VirtualDateNow => result'.value = VirtualNow
       /\ VirtualDateNew => result'.value = TimeClip(VirtualNow)
       /\ (\E ms \in DateArgs : VirtualDateNewArgs(ms)) => result'.value = TimeClip(result'.arg)
       /\ VirtualDateCall => result'.value = realNow
       /\ RealDateNow => result'.value = realNow
       /\ clockState' # clockState => realNow' = realNow]_vars

\* new Date() has been evaluated at a virtual instant that is not a whole
\* millisecond and differs from the real time.
C18_Witness ==
    /\ result.op = "new Date"
    /\ IsHalf(VirtualNow)
    /\ result.value = TimeClip(VirtualNow)
    /\ result.value # realNow
    /\ realNow > clockState.baseRealTime

\* ---------------------------------------------------------------- reloads
\* C21: a load of the script that reads no valid record and can write leaves
\* the record of its defaulted state in storage; a later load that reads
\* storage, with no call in between, restores baseRealTime, baseVirtualTime
\* and speed of that defaulted state, writes nothing, and now() goes on from
\* the original base.
C21_DefaultPersisted ==
    /\ (last.op = "init" /\ last.kind = "read" /\ last.wrote) =>
          /\ clockState = ClockRec(last.real, last.real, 1)
          /\ storage = JObject(JNum(last.real), JNum(last.real), JNum(1))
    /\ (last.op = "init" /\ last.kind = "read" /\ last.again) =>
          /\ ~last.wrote
          /\ clockState = ClockRec(last.arg, last.arg, 1)
          /\ storage = JObject(JNum(last.arg), JNum(last.arg), JNum(1))
          /\ now = last.arg + (realNow - last.arg) * 1

\* The script was loaded over a malformed item, stored its default, and was
\* reloaded after real time had passed; more real time has passed since.
C21_Witness ==
    /\ last.op = "init"
    /\ last.kind = "read"
    /\ last.again
    /\ last.real > last.arg
    /\ realNow > last.real
    /\ clockState.baseRealTime = last.arg

\* ---------------------------------------------------------------- panel
\* C22: when the Apply handler reaches its end, with val the date-time field
\* and speedVal the speed field read at the click: if val parses to the
\* instant T and speedVal > 0, setTime(T) was called and then
\* setSpeed(speedVal), and with no real time elapsed since the click
\* now() = T and speed = speedVal; if val parses and speedVal is NaN or not
\* positive, only setTime was called and the speed is the one from before
\* the click; if val does not parse, setTime was not called and the virtual
\* time is the one that was running before the click.  Each delivery
\* started by the handler reaches every listener that was subscribed when
\* it started and has not been unsubscribed, so such a listener receives one
\* snapshot per mutation.
C22_ApplyTimeThenSpeed ==
    (stack # <<>> /\ stack[1].kind = "apply") =>
        LET click == stack[1].call
            val == stack[1].val
            speedVal == stack[1].speedVal
        IN  /\ (atEnd /\ inputParses(val) /\ speedApplies(speedVal)) =>
                  /\ last.op = "setSpeed"
                  /\ last.before.baseVirtualTime = val.ms
                  /\ last.before.speed = click.before.speed
                  /\ clockState.speed = speedVal
                  /\ realNow = click.real => now = val.ms
            /\ (atEnd /\ inputParses(val) /\ ~speedApplies(speedVal)) =>
                  /\ last.op = "setTime"
                  /\ clockState = ClockRec(last.real, val.ms, click.before.speed)
            /\ (atEnd /\ ~inputParses(val) /\ speedApplies(speedVal)) =>
                  /\ last.op = "setSpeed"
                  /\ last.before = click.before
                  /\ clockState = ClockRec(last.real, getVirtualNow(click.before, last.real),
                                           speedVal)
            /\ (atEnd /\ ~inputParses(val) /\ ~speedApplies(speedVal)) =>
                  /\ last.op = "apply"
                  /\ clockState = click.before
            /\ \A k \in DOMAIN stack :
                  Finished(stack[k]) =>
                      \A id \in stack[k].start \ called :
                          Count(stack[k].invoked, id) = 1

====
